---- MODULE Spec2Model ----
(***************************************************************************)
(* Wheel-strategy backtest engine: the state reducer (state.ts), the rule  *)
(* evaluator (strategy.ts), the default rules (rules.ts), the simulated    *)
(* executor (executor.ts) and the simulation driver (simulate.ts).         *)
(*                                                                         *)
(* Money and prices are integers.  Percentages (bidAskSpreadPct,           *)
(* skipThresholdPct, itmThresholdPct) are integers out of 100, so          *)
(* x >= k * (1 + pct) is written 100 * x >= k * (100 + pct).               *)
(* The Black-Scholes numerics are not computed: a day's quote q carries    *)
(* what the pricing functions return that day (a strike inside the         *)
(* bisection bracket, a raw premium, a buy-back cost, a delta), drawn from *)
(* small sets; every rule evaluated on that day reads the same quote, as   *)
(* the pure pricing functions give every rule the same numbers.            *)
(***************************************************************************)
EXTENDS Integers, Sequences, FiniteSets, TLC

VARIABLES pc, config, day, prices, portfolio, signalLog, dailyStates, summary,
          args, ret

vars == <<pc, config, day, prices, portfolio, signalLog, dailyStates, summary,
          args, ret>>

\* ---------------------------------------------------------------- bounds
\* longest price series simulated
MaxDays == 4
\* longest rule list handed to evaluateRules
MaxRules == 3
\* longest event list handed to applyEvents
MaxEvents == 2

\* ---------------------------------------------------------------- optionals
\* T | null is the empty set or a singleton
Null == {}
Some(x) == {x}
Get(o) == CHOOSE x \in o : TRUE

Max(a, b) == IF a >= b THEN a ELSE b

RECURSIVE SumSeq(_)
SumSeq(s) == IF s = <<>> THEN 0 ELSE Head(s) + SumSeq(Tail(s))

RECURSIVE Flatten(_)
Flatten(ss) == IF ss = <<>> THEN <<>> ELSE Head(ss) \o Flatten(Tail(ss))

SelectType(events, t) == SelectSeq(events, LAMBDA e : e.type = t)

\* ---------------------------------------------------------------- input sets
Spots == {8, 12}
StrikeOffsets == {0, 1}
RawPremiums == {0, 4}
RollCosts == {1, 3}
Deltas == {30}
Quotes == [strikeOff : StrikeOffsets, rawPremium : RawPremiums,
           rollCost : RollCosts, delta : Deltas]

ContractCounts == {1, 2}
CycleLengths == {1, 2}
Fees == {1}
BidAskPcts == {50}
AdaptiveCallsConfigs == [skipThresholdPct : {5}, minStrikeAtCost : BOOLEAN]
RollCallConfigs == [itmThresholdPct : {5}, requireNetCredit : BOOLEAN]
Configs == [cycleLengthDays : CycleLengths, contracts : ContractCounts,
            bidAskSpreadPct : BidAskPcts, feePerTrade : Fees,
            adaptiveCalls : {Null} \cup {Some(a) : a \in AdaptiveCallsConfigs},
            rollCall : {Null} \cup {Some(r) : r \in RollCallConfigs}]

\* ---------------------------------------------------------------- state.ts
initialPortfolio ==
  [phase |-> "idle_cash", position |-> Null, openOption |-> Null,
   realizedPL |-> 0, totalPremiumCollected |-> 0,
   totalAssignments |-> 0, totalSkippedCycles |-> 0]

snapshotPortfolio(state) ==
  [state EXCEPT
     !.position = IF state.position # Null
                  THEN Some([size |-> Get(state.position).size,
                             entryPrice |-> Get(state.position).entryPrice])
                  ELSE Null,
     !.openOption = IF state.openOption # Null
                    THEN Some([type |-> Get(state.openOption).type,
                               strike |-> Get(state.openOption).strike,
                               delta |-> Get(state.openOption).delta,
                               premium |-> Get(state.openOption).premium,
                               openDay |-> Get(state.openOption).openDay,
                               expiryDay |-> Get(state.openOption).expiryDay])
                    ELSE Null]

\* applyOptionExpired with the two assignment branches swapped
applyOptionExpiredSwapped(s, e) ==
  IF e.assigned
  THEN [s EXCEPT !.openOption = Null,
                 !.phase = IF e.optionType = "put" THEN "idle_cash" ELSE "holding_eth",
                 !.totalAssignments = @ + 1]
  ELSE [s EXCEPT !.openOption = Null,
                 !.phase = IF s.position # Null THEN "holding_eth" ELSE "idle_cash"]

\* applyOptionExpired counting every expiry as an assignment
applyOptionExpiredCountingAll(s, e) ==
  [s EXCEPT !.openOption = Null,
            !.phase = IF e.assigned
                      THEN (IF e.optionType = "put" THEN "holding_eth" ELSE "idle_cash")
                      ELSE (IF s.position # Null THEN "holding_eth" ELSE "idle_cash"),
            !.totalAssignments = @ + 1]

\* applyOptionExpired with the unassigned branch forgetting the held position
applyOptionExpiredToIdle(s, e) ==
  IF e.assigned
  THEN [s EXCEPT !.openOption = Null,
                 !.phase = IF e.optionType = "put" THEN "holding_eth" ELSE "idle_cash",
                 !.totalAssignments = @ + 1]
  ELSE [s EXCEPT !.openOption = Null, !.phase = "idle_cash"]

\* case "OPTION_EXPIRED"
applyOptionExpired(s, e) ==
  IF e.assigned
  THEN [s EXCEPT !.openOption = Null,
                 !.phase = IF e.optionType = "put" THEN "holding_eth" ELSE "idle_cash",
                 !.totalAssignments = @ + 1]
  ELSE [s EXCEPT !.openOption = Null,
                 !.phase = IF s.position # Null THEN "holding_eth" ELSE "idle_cash"]

\* applyPremiumCollected counting the premium net of fees
applyPremiumCollectedNet(s, e) ==
  [s EXCEPT !.totalPremiumCollected = @ + e.netAmount,
            !.realizedPL = @ + e.netAmount]

\* case "PREMIUM_COLLECTED"
applyPremiumCollected(s, e) ==
  [s EXCEPT !.totalPremiumCollected = @ + e.grossPremium,
            !.realizedPL = @ + e.netAmount]

\* applyCycleSkipped leaving the counter alone
applyCycleSkippedUncounted(s, e) == s

\* case "CYCLE_SKIPPED"
applyCycleSkipped(s, e) ==
  [s EXCEPT !.totalSkippedCycles = @ + 1]

\* applyOptionRolled counting the roll's net credit as premium collected
applyOptionRolledNetCredit(s, e) ==
  [s EXCEPT !.totalPremiumCollected = @ + e.newPremium - e.rollCost,
            !.realizedPL = @ + e.newPremium - e.rollCost - e.fees,
            !.openOption = Some([type |-> "call", strike |-> e.newStrike,
                                 delta |-> e.newDelta, premium |-> e.newPremium,
                                 openDay |-> e.openDay, expiryDay |-> e.expiryDay])]

\* applyOptionRolled counting the rolled-away option's premium, not the new one's
applyOptionRolledOriginal(s, e) ==
  [s EXCEPT !.totalPremiumCollected = @ + e.originalPremium,
            !.realizedPL = @ + e.newPremium - e.rollCost - e.fees,
            !.openOption = Some([type |-> "call", strike |-> e.newStrike,
                                 delta |-> e.newDelta, premium |-> e.newPremium,
                                 openDay |-> e.openDay, expiryDay |-> e.expiryDay])]

\* case "OPTION_ROLLED"
applyOptionRolled(s, e) ==
  [s EXCEPT !.totalPremiumCollected = @ + e.newPremium,
            !.realizedPL = @ + e.newPremium - e.rollCost - e.fees,
            !.openOption = Some([type |-> "call", strike |-> e.newStrike,
                                 delta |-> e.newDelta, premium |-> e.newPremium,
                                 openDay |-> e.openDay, expiryDay |-> e.expiryDay])]

\* one iteration of the reducer's loop: the switch on e.type
applyEvent(s, e) ==
  CASE e.type = "OPTION_SOLD" ->
         [s EXCEPT !.openOption = Some([type |-> e.optionType, strike |-> e.strike,
                                        delta |-> e.delta, premium |-> e.premium,
                                        openDay |-> e.openDay, expiryDay |-> e.expiryDay]),
                   !.phase = IF e.optionType = "put" THEN "short_put" ELSE "short_call"]
    [] e.type = "OPTION_EXPIRED" -> applyOptionExpired(s, e)
    [] e.type = "ETH_BOUGHT" ->
         [s EXCEPT !.position = Some([size |-> e.size, entryPrice |-> e.price])]
    [] e.type = "ETH_SOLD" ->
         [s EXCEPT !.position = Null, !.realizedPL = @ + e.pl]
    [] e.type = "PREMIUM_COLLECTED" -> applyPremiumCollected(s, e)
    [] e.type = "CYCLE_SKIPPED" -> applyCycleSkipped(s, e)
    [] e.type = "POSITION_CLOSED" ->
         [s EXCEPT !.position = Null, !.realizedPL = @ + e.pl, !.phase = "idle_cash"]
    [] e.type = "OPTION_ROLLED" -> applyOptionRolled(s, e)
    [] OTHER -> s

\* applyEvents returning from inside its loop, after the first event
applyEventsFirstOnly(state, events) ==
  IF events = <<>> THEN snapshotPortfolio(state)
  ELSE applyEvent(snapshotPortfolio(state), Head(events))

RECURSIVE applyEvents(_, _)
applyEvents(state, events) ==
  IF events = <<>> THEN snapshotPortfolio(state)
  ELSE applyEvents(applyEvent(state, Head(events)), Tail(events))

\* toDailyState reporting realized plus unrealized P/L as the cumulative P/L
toDailyStateMarkedToMarket(market, p, contracts) ==
  LET holdingETH == p.position # Null
      unrealizedPL == IF holdingETH
                      THEN (market.spot - Get(p.position).entryPrice) * contracts
                      ELSE 0
  IN [day |-> market.day, price |-> market.spot, phase |-> p.phase,
      cumulativePL |-> p.realizedPL + unrealizedPL,
      unrealizedPL |-> unrealizedPL,
      holdingETH |-> holdingETH]

\* The same call seen as reads and writes of objects: the heap holds the caller's
\* object ("state") and the object the local s names; every case of the switch
\* assigns to properties of s (s.phase = .., s.position = {..}, s.realizedPL += ..)
\* and none writes through s.position or s.openOption.

\* let s = state: the local naming the caller's object
localAlias == "state"

\* let s: PortfolioState = {...state, position: .., openOption: ..}: a new object
localCopy == "s"

RECURSIVE applyEventsLoop(_, _, _)
applyEventsLoop(heap, s, events) ==
  IF events = <<>> THEN heap
  ELSE applyEventsLoop([heap EXCEPT ![s] = applyEvent(heap[s], Head(events))],
                       s, Tail(events))

\* the heap when applyEvents(state, events) returns
applyEventsHeap(state, events) ==
  applyEventsLoop([state |-> state, s |-> snapshotPortfolio(state)], localCopy, events)

toDailyState(market, p, contracts) ==
  LET holdingETH == p.position # Null
  IN [day |-> market.day, price |-> market.spot, phase |-> p.phase,
      cumulativePL |-> p.realizedPL,
      unrealizedPL |-> IF holdingETH
                       THEN (market.spot - Get(p.position).entryPrice) * contracts
                       ELSE 0,
      holdingETH |-> holdingETH]

\* ---------------------------------------------------------------- strategy.ts
\* isDecisionPoint with the expiry day itself still mid-cycle
isDecisionPointAfterExpiry(d, p) ==
  IF p.openOption = Null THEN TRUE
  ELSE d > Get(p.openOption).expiryDay

isDecisionPoint(d, p) ==
  IF p.openOption = Null THEN TRUE
  ELSE d >= Get(p.openOption).expiryDay

\* [...rules].sort((a, b) => a.priority - b.priority): a stable sort
RECURSIVE InsertByPriority(_, _)
InsertByPriority(sorted, rule) ==
  IF sorted = <<>> THEN <<rule>>
  ELSE IF rule.priority < Head(sorted).priority THEN <<rule>> \o sorted
  ELSE <<Head(sorted)>> \o InsertByPriority(Tail(sorted), rule)

\* the rules taken in the order given, the sort left out
SortByPriorityOmitted(rules) == rules

RECURSIVE SortByPriority(_)
SortByPriority(rules) ==
  IF rules = <<>> THEN <<>>
  ELSE InsertByPriority(SortByPriority(SubSeq(rules, 1, Len(rules) - 1)),
                        rules[Len(rules)])

\* for (const rule of sorted) { const signal = rule.evaluate(...); if (signal) return signal; }
\* over the rules' results in sorted order (the rules are pure)
RECURSIVE FirstSignal(_)
FirstSignal(results) ==
  IF results = <<>> THEN [action |-> "HOLD"]
  ELSE IF Head(results) # Null THEN Get(Head(results))
  ELSE FirstSignal(Tail(results))

\* evaluate[rule] is what rule.evaluate(market, portfolio, config) returns
evaluateRules(rules, evaluate) ==
  LET sorted == SortByPriority(rules)
  IN FirstSignal([i \in 1..Len(sorted) |-> evaluate[sorted[i]]])

\* ---------------------------------------------------------------- black-scholes.ts
\* the bisection returns a point of its bracket: [spot/2, spot] for a put,
\* [spot, 3*spot/2] for a call
findStrikeForDelta(spot, type, q) ==
  IF type = "put" THEN spot - q.strikeOff ELSE spot + q.strikeOff

bsPutPrice(spot, strike, q) == q.rawPremium
bsCallPrice(spot, strike, q) == q.rawPremium

\* ---- findStrikeForDelta: the bisection
\* Strikes are counted in units of 0.0025, so the tolerance 0.01 is 4 units;
\* the spots drawn are powers of two, which keeps every midpoint down to the
\* tolerance a whole number of units.  The comparison of the midpoint's
\* absolute delta with the target is the input `above`, one answer per
\* iteration.  The result is the bracket after each iteration, the initial
\* bracket first.

maxIterations == 100

bisectionTolerance == 4

Abs(x) == IF x < 0 THEN -x ELSE x

initialBracketAroundSpot(spot, type) ==
    [lo |-> spot \div 2, hi |-> (spot * 3) \div 2]

initialBracket(spot, type) ==
    IF type = "put" THEN [lo |-> spot \div 2, hi |-> spot]
    ELSE [lo |-> spot, hi |-> (spot * 3) \div 2]

RECURSIVE findStrikeForDeltaLoop(_, _, _, _, _)
findStrikeForDeltaLoop(type, b, i, above, brackets) ==
    IF i >= maxIterations THEN brackets
    ELSE LET mid == (b.lo + b.hi) \div 2
             absDeltaAbove == i + 1 <= Len(above) /\ above[i + 1]
             next == IF type = "put"
                     THEN IF absDeltaAbove THEN [lo |-> b.lo, hi |-> mid]
                          ELSE [lo |-> mid, hi |-> b.hi]
                     ELSE IF absDeltaAbove THEN [lo |-> mid, hi |-> b.hi]
                          ELSE [lo |-> b.lo, hi |-> mid]
         IN  IF Abs(next.hi - next.lo) < bisectionTolerance
             THEN Append(brackets, next)
             ELSE findStrikeForDeltaLoop(type, next, i + 1, above, Append(brackets, next))

findStrikeForDeltaBisection(spot, type, above) ==
    LET brackets == findStrikeForDeltaLoop(type, initialBracket(spot, type), 0, above,
                                           <<initialBracket(spot, type)>>)
        last == brackets[Len(brackets)]
    IN  [brackets |-> brackets, strike |-> (last.lo + last.hi) \div 2]

\* ---- bsPutDelta, bsCallDelta
\* The absolute deltas in units of 0.0001, tabulated from the source's
\* formulas (cdf of d1) for spot 64 units, T = 30/365, r = 0.05 and
\* sigma = 0.8: the put table for the strikes 32..64, the call table for the
\* strikes 64..96.

TabulatedSpots == {64}

bsPutDeltaTable ==
    <<6, 9, 14, 21, 31, 44, 60, 82, 110, 144, 186, 237, 297, 368, 450, 545, 652,
      772, 907, 1055, 1218, 1395, 1587, 1794, 2015, 2250, 2499, 2763, 3041, 3333,
      3639, 3959, 4294>>

bsCallDeltaTable ==
    <<5706, 5356, 4991, 4632, 4298, 3987, 3697, 3425, 3172, 2936, 2715, 2509,
      2317, 2138, 1971, 1815, 1670, 1536, 1411, 1295, 1188, 1088, 996, 911, 833,
      761, 694, 633, 577, 525, 478, 435, 395>>

bsPutDelta(strike) == -bsPutDeltaTable[strike - 31]

bsCallDelta(strike) == bsCallDeltaTable[strike - 63]

absDelta(type, strike) ==
    IF type = "put" THEN Abs(bsPutDelta(strike)) ELSE Abs(bsCallDelta(strike))

\* ---------------------------------------------------------------- rules.ts
\* rawPremium * (1 - config.bidAskSpreadPct)
netOfSpread(rawPremium, cfg) == (rawPremium * (100 - cfg.bidAskSpreadPct)) \div 100

\* callStrike without the clamp to the cost basis
callStrikeUnclamped(market, p, cfg, q) == findStrikeForDelta(market.spot, "call", q)

callStrike(market, p, cfg, q) ==
  LET rawStrike == findStrikeForDelta(market.spot, "call", q)
      minStrike == IF cfg.adaptiveCalls # Null
                      /\ Get(cfg.adaptiveCalls).minStrikeAtCost
                      /\ p.position # Null
                   THEN Get(p.position).entryPrice ELSE 0
  IN Max(rawStrike, minStrike)

basePutRuleEvaluate(market, p, cfg, q) ==
  IF p.phase # "idle_cash" THEN Null
  ELSE LET strike == findStrikeForDelta(market.spot, "put", q)
       IN Some([action |-> "SELL_PUT", strike |-> strike, delta |-> q.delta,
                premium |-> netOfSpread(bsPutPrice(market.spot, strike, q), cfg),
                rule |-> "BasePutRule"])

adaptiveCallRuleEvaluate(market, p, cfg, q) ==
  IF p.phase # "holding_eth" THEN Null
  ELSE LET strike == callStrike(market, p, cfg, q)
       IN Some([action |-> "SELL_CALL", strike |-> strike, delta |-> q.delta,
                premium |-> netOfSpread(bsCallPrice(market.spot, strike, q), cfg),
                rule |-> "AdaptiveCallRule"])

lowPremiumSkipRuleEvaluate(market, p, cfg, q) ==
  IF p.phase # "holding_eth" THEN Null
  ELSE IF cfg.adaptiveCalls = Null \/ p.position = Null THEN Null
  ELSE LET strike == callStrike(market, p, cfg, q)
           premium == netOfSpread(bsCallPrice(market.spot, strike, q), cfg)
           netPremium == premium * cfg.contracts - cfg.feePerTrade * cfg.contracts
           positionValue == Get(p.position).entryPrice * cfg.contracts
       IN IF 100 * netPremium < Get(cfg.adaptiveCalls).skipThresholdPct * positionValue
          THEN Some([action |-> "SKIP", rule |-> "LowPremiumSkipRule"])
          ELSE Null

\* RollCallRule: its code is not in rules.ts; from the specification, section 4.4
rollCallRuleEvaluate(market, p, cfg, q) ==
  IF p.phase # "short_call" THEN Null
  ELSE IF cfg.rollCall = Null \/ p.openOption = Null THEN Null
  ELSE IF ~(100 * market.spot >=
            Get(p.openOption).strike * (100 + Get(cfg.rollCall).itmThresholdPct))
       THEN Null
  ELSE LET newStrike == findStrikeForDelta(market.spot, "call", q)
           newPremium == netOfSpread(bsCallPrice(market.spot, newStrike, q), cfg)
           rollCost == q.rollCost
       IN IF Get(cfg.rollCall).requireNetCredit /\ newPremium - rollCost <= 0
          THEN Null
          ELSE Some([action |-> "ROLL", newStrike |-> newStrike, newDelta |-> q.delta,
                     rollCost |-> rollCost, newPremium |-> newPremium,
                     credit |-> newPremium - rollCost, rule |-> "RollCallRule"])

\* lowPremiumSkipRule ranked after the call rule
lowPremiumSkipRuleAfterCall == [name |-> "LowPremiumSkipRule", priority |-> 150]
lowPremiumSkipRule == [name |-> "LowPremiumSkipRule", priority |-> 50]
basePutRule == [name |-> "BasePutRule", priority |-> 100]
adaptiveCallRule == [name |-> "AdaptiveCallRule", priority |-> 100]
rollCallRule == [name |-> "RollCallRule", priority |-> 30]

\* rules.test.ts finds RollCallRule in defaultRules()
defaultRules == <<lowPremiumSkipRule, basePutRule, adaptiveCallRule, rollCallRule>>

ruleEvaluate(rule, market, p, cfg, q) ==
  CASE rule.name = "LowPremiumSkipRule" -> lowPremiumSkipRuleEvaluate(market, p, cfg, q)
    [] rule.name = "BasePutRule" -> basePutRuleEvaluate(market, p, cfg, q)
    [] rule.name = "AdaptiveCallRule" -> adaptiveCallRuleEvaluate(market, p, cfg, q)
    [] rule.name = "RollCallRule" -> rollCallRuleEvaluate(market, p, cfg, q)
    [] OTHER -> Null

\* ---------------------------------------------------------------- executor.ts
\* portfolio.position!.entryPrice with no position: a TypeError
resolveExpirationThrows(market, p, cfg) ==
  /\ p.openOption # Null
  /\ Get(p.openOption).type = "call"
  /\ market.spot >= Get(p.openOption).strike
  /\ p.position = Null

\* resolvePut booking the premium again when the put expires
resolvePutBookingPremium(market, opt, cfg) ==
  LET assigned == market.spot < opt.strike
  IN <<[type |-> "OPTION_EXPIRED", optionType |-> "put", strike |-> opt.strike,
        spot |-> market.spot, assigned |-> assigned],
       [type |-> "PREMIUM_COLLECTED", grossPremium |-> opt.premium * cfg.contracts,
        fees |-> 0, netAmount |-> opt.premium * cfg.contracts]>>
     \o (IF assigned
         THEN <<[type |-> "ETH_BOUGHT", price |-> opt.strike, size |-> cfg.contracts]>>
         ELSE <<>>)

\* if (opt.type === "put") { ... }
resolvePut(market, opt, cfg) ==
  LET assigned == market.spot < opt.strike
  IN <<[type |-> "OPTION_EXPIRED", optionType |-> "put", strike |-> opt.strike,
        spot |-> market.spot, assigned |-> assigned]>>
     \o (IF assigned
         THEN <<[type |-> "ETH_BOUGHT", price |-> opt.strike, size |-> cfg.contracts]>>
         ELSE <<>>)

\* resolveCall assigning only above the strike
resolveCallAboveStrike(market, opt, p, cfg) ==
  LET assigned == market.spot > opt.strike
  IN <<[type |-> "OPTION_EXPIRED", optionType |-> "call", strike |-> opt.strike,
        spot |-> market.spot, assigned |-> assigned]>>
     \o (IF assigned /\ p.position # Null
         THEN <<[type |-> "ETH_SOLD", price |-> opt.strike, size |-> cfg.contracts,
                 pl |-> (opt.strike - Get(p.position).entryPrice) * cfg.contracts]>>
         ELSE <<>>)

\* else { ... }; with no position the read of entryPrice throws
\* (resolveExpirationThrows) and nothing is returned
resolveCall(market, opt, p, cfg) ==
  LET assigned == market.spot >= opt.strike
  IN <<[type |-> "OPTION_EXPIRED", optionType |-> "call", strike |-> opt.strike,
        spot |-> market.spot, assigned |-> assigned]>>
     \o (IF assigned /\ p.position # Null
         THEN <<[type |-> "ETH_SOLD", price |-> opt.strike, size |-> cfg.contracts,
                 pl |-> (opt.strike - Get(p.position).entryPrice) * cfg.contracts]>>
         ELSE <<>>)

resolveExpiration(market, p, cfg) ==
  IF p.openOption = Null THEN <<>>
  ELSE IF Get(p.openOption).type = "put"
       THEN resolvePut(market, Get(p.openOption), cfg)
       ELSE resolveCall(market, Get(p.openOption), p, cfg)

\* sellOption collecting the premium of one contract whatever the contract count
sellOptionOneContract(optionType, signal, market, cfg) ==
  LET fees == cfg.feePerTrade * cfg.contracts
      grossPremium == signal.premium
  IN <<[type |-> "OPTION_SOLD", optionType |-> optionType, strike |-> signal.strike,
        premium |-> signal.premium, delta |-> signal.delta, fees |-> fees,
        openDay |-> market.day, expiryDay |-> market.day + cfg.cycleLengthDays],
       [type |-> "PREMIUM_COLLECTED", grossPremium |-> grossPremium, fees |-> fees,
        netAmount |-> grossPremium - fees]>>

\* case "SELL_PUT" and case "SELL_CALL": the same code but for optionType
sellOption(optionType, signal, market, cfg) ==
  LET fees == cfg.feePerTrade * cfg.contracts
      grossPremium == signal.premium * cfg.contracts
  IN <<[type |-> "OPTION_SOLD", optionType |-> optionType, strike |-> signal.strike,
        premium |-> signal.premium, delta |-> signal.delta, fees |-> fees,
        openDay |-> market.day, expiryDay |-> market.day + cfg.cycleLengthDays],
       [type |-> "PREMIUM_COLLECTED", grossPremium |-> grossPremium, fees |-> fees,
        netAmount |-> grossPremium - fees]>>

\* case "CLOSE_POSITION"
closePosition(signal, market, p, cfg) ==
  IF p.position = Null THEN <<>>
  ELSE <<[type |-> "POSITION_CLOSED", price |-> market.spot,
          size |-> Get(p.position).size,
          pl |-> (market.spot - Get(p.position).entryPrice) * Get(p.position).size]>>

\* rollOption without its guard: an OPTION_ROLLED event even with nothing to roll
rollOptionUnguarded(signal, market, p, cfg) ==
  <<[type |-> "OPTION_ROLLED",
     oldStrike |-> IF p.openOption = Null THEN 0 ELSE Get(p.openOption).strike,
     newStrike |-> signal.newStrike, newDelta |-> signal.newDelta,
     originalPremium |-> IF p.openOption = Null THEN 0
                         ELSE Get(p.openOption).premium * cfg.contracts,
     rollCost |-> signal.rollCost * cfg.contracts,
     newPremium |-> signal.newPremium,
     fees |-> 2 * cfg.feePerTrade * cfg.contracts,
     openDay |-> market.day, expiryDay |-> market.day + cfg.cycleLengthDays]>>

\* case "ROLL"
rollOption(signal, market, p, cfg) ==
  IF p.openOption = Null THEN <<>>
  ELSE LET opt == Get(p.openOption) IN
       <<[type |-> "OPTION_ROLLED", oldStrike |-> opt.strike,
          newStrike |-> signal.newStrike, newDelta |-> signal.newDelta,
          originalPremium |-> opt.premium * cfg.contracts,
          rollCost |-> signal.rollCost * cfg.contracts,
          newPremium |-> signal.newPremium,
          fees |-> 2 * cfg.feePerTrade * cfg.contracts,
          openDay |-> market.day, expiryDay |-> market.day + cfg.cycleLengthDays]>>

execute(signal, market, p, cfg) ==
  CASE signal.action = "SELL_PUT" -> sellOption("put", signal, market, cfg)
    [] signal.action = "SELL_CALL" -> sellOption("call", signal, market, cfg)
    [] signal.action = "SKIP" -> <<[type |-> "CYCLE_SKIPPED"]>>
    [] signal.action = "CLOSE_POSITION" -> closePosition(signal, market, p, cfg)
    [] signal.action = "ROLL" -> rollOption(signal, market, p, cfg)
    [] OTHER -> <<>>

\* ---------------------------------------------------------------- simulate.ts
\* st is the loop's mutable state: [portfolio, signalLog]

\* expiryStep leaving the option open on its expiry day
expiryStepAfterExpiryDay(st, market, cfg) ==
  IF st.portfolio.openOption # Null
     /\ market.day > Get(st.portfolio.openOption).expiryDay
  THEN LET before == snapshotPortfolio(st.portfolio)
           expiryEvents == resolveExpiration(market, st.portfolio, cfg)
           after == applyEvents(st.portfolio, expiryEvents)
       IN [portfolio |-> after,
           signalLog |-> Append(st.signalLog,
              [day |-> market.day, market |-> market, portfolioBefore |-> before,
               signal |-> [action |-> "HOLD"], events |-> expiryEvents,
               portfolioAfter |-> snapshotPortfolio(after)])]
  ELSE st

\* expiryStep applying the expiry's events without logging them
expiryStepUnlogged(st, market, cfg) ==
  IF st.portfolio.openOption # Null
     /\ market.day >= Get(st.portfolio.openOption).expiryDay
  THEN [portfolio |-> applyEvents(st.portfolio,
                                  resolveExpiration(market, st.portfolio, cfg)),
        signalLog |-> st.signalLog]
  ELSE st

\* expiryStep resolving the open option at every decision, whatever the day
expiryStepOnAnyDay(st, market, cfg) ==
  IF st.portfolio.openOption # Null
  THEN LET before == snapshotPortfolio(st.portfolio)
           expiryEvents == resolveExpiration(market, st.portfolio, cfg)
           after == applyEvents(st.portfolio, expiryEvents)
       IN [portfolio |-> after,
           signalLog |-> Append(st.signalLog,
              [day |-> market.day, market |-> market, portfolioBefore |-> before,
               signal |-> [action |-> "HOLD"], events |-> expiryEvents,
               portfolioAfter |-> snapshotPortfolio(after)])]
  ELSE st

\* if (portfolio.openOption && day >= portfolio.openOption.expiryDay) { ... }
expiryStep(st, market, cfg) ==
  IF st.portfolio.openOption # Null
     /\ market.day >= Get(st.portfolio.openOption).expiryDay
  THEN LET before == snapshotPortfolio(st.portfolio)
           expiryEvents == resolveExpiration(market, st.portfolio, cfg)
           after == applyEvents(st.portfolio, expiryEvents)
       IN [portfolio |-> after,
           signalLog |-> Append(st.signalLog,
              [day |-> market.day, market |-> market, portfolioBefore |-> before,
               signal |-> [action |-> "HOLD"], events |-> expiryEvents,
               portfolioAfter |-> snapshotPortfolio(after)])]
  ELSE st

\* signalStep without its test of the signal: a HOLD is executed and logged too
signalStepLoggingHold(st, market, cfg, rules, q) ==
  LET beforeSignal == snapshotPortfolio(st.portfolio)
      evaluate == [rule \in {rules[i] : i \in 1..Len(rules)} |->
                     ruleEvaluate(rule, market, st.portfolio, cfg, q)]
      signal == evaluateRules(rules, evaluate)
      execEvents == execute(signal, market, st.portfolio, cfg)
      after == applyEvents(st.portfolio, execEvents)
  IN [portfolio |-> after,
      signalLog |-> Append(st.signalLog,
         [day |-> market.day, market |-> market, portfolioBefore |-> beforeSignal,
          signal |-> signal, events |-> execEvents,
          portfolioAfter |-> snapshotPortfolio(after)])]

\* const signal = evaluateRules(...); if (signal.action !== "HOLD") { ... }
signalStep(st, market, cfg, rules, q) ==
  LET beforeSignal == snapshotPortfolio(st.portfolio)
      evaluate == [rule \in {rules[i] : i \in 1..Len(rules)} |->
                     ruleEvaluate(rule, market, st.portfolio, cfg, q)]
      signal == evaluateRules(rules, evaluate)
  IN IF signal.action # "HOLD"
     THEN LET execEvents == execute(signal, market, st.portfolio, cfg)
              after == applyEvents(st.portfolio, execEvents)
          IN [portfolio |-> after,
              signalLog |-> Append(st.signalLog,
                 [day |-> market.day, market |-> market, portfolioBefore |-> beforeSignal,
                  signal |-> signal, events |-> execEvents,
                  portfolioAfter |-> snapshotPortfolio(after)])]
     ELSE st

rollTrigger(market, p, cfg) ==
  /\ ~isDecisionPoint(market.day, p)
  /\ cfg.rollCall # Null
  /\ p.phase = "short_call"
  /\ p.openOption # Null
  /\ 100 * market.spot >= Get(p.openOption).strike * (100 + Get(cfg.rollCall).itmThresholdPct)

\* simulateDay acting at decision points only, the roll trigger left out
simulateDayDecisionPointsOnly(st, market, cfg, rules, q) ==
  IF isDecisionPoint(market.day, st.portfolio)
  THEN signalStep(expiryStep(st, market, cfg), market, cfg, rules, q)
  ELSE st

\* simulateDay evaluating the rules before it resolves the expiry
simulateDayRulesFirst(st, market, cfg, rules, q) ==
  IF isDecisionPoint(market.day, st.portfolio) \/ rollTrigger(market, st.portfolio, cfg)
  THEN expiryStep(signalStep(st, market, cfg, rules, q), market, cfg)
  ELSE st

\* the body of the day loop, up to the dailyStates.push
simulateDay(st, market, cfg, rules, q) ==
  IF isDecisionPoint(market.day, st.portfolio) \/ rollTrigger(market, st.portfolio, cfg)
  THEN signalStep(expiryStep(st, market, cfg), market, cfg, rules, q)
  ELSE st

NoCall == [fn |-> "none"]

Init ==
  /\ pc = "loop"
  /\ config \in Configs
  /\ day = 0
  /\ prices = <<>>
  /\ portfolio = initialPortfolio
  /\ signalLog = <<>>
  /\ dailyStates = <<>>
  /\ summary = Null
  /\ args = NoCall
  /\ ret = NoCall

\* one iteration of for (let day = 0; day < prices.length; day++)
SimulateDay ==
  /\ pc = "loop"
  /\ day < MaxDays
  /\ \E spot \in Spots, q \in Quotes :
       LET market == [day |-> day, spot |-> spot]
           st == simulateDay([portfolio |-> portfolio, signalLog |-> signalLog],
                             market, config, defaultRules, q)
       IN /\ portfolio' = st.portfolio
          /\ signalLog' = st.signalLog
          /\ dailyStates' = Append(dailyStates,
                                   toDailyState(market, st.portfolio, config.contracts))
          /\ prices' = Append(prices, spot)
  /\ day' = day + 1
  /\ UNCHANGED <<pc, config, summary, args, ret>>

\* day = prices.length: the loop ends and the result is returned
Return ==
  /\ pc = "loop"
  /\ pc' = "done"
  /\ summary' = Some([totalRealizedPL |-> portfolio.realizedPL,
                      totalPremiumCollected |-> portfolio.totalPremiumCollected,
                      totalAssignments |-> portfolio.totalAssignments,
                      totalSkippedCycles |-> portfolio.totalSkippedCycles])
  /\ UNCHANGED <<config, day, prices, portfolio, signalLog, dailyStates, args, ret>>

Next == SimulateDay \/ Return

Spec == Init /\ [][Next]_vars

\* ---------------------------------------------------------------- insights.ts
\* The means are kept as sums over the number of runs: meanAssignments is
\* sumAssignments / n and meanFullCycles is sumFullCycles / n, so their
\* quotient is sumAssignments / sumFullCycles.

SumField(runs, f) == SumSeq([i \in 1..Len(runs) |-> runs[i][f]])

evaluateAssignmentRateAnyActivity(runs) ==
    LET n == Len(runs)
        sumAssignments == SumField(runs, "assignments")
        sumFullCycles == SumField(runs, "fullCycles")
    IN  IF n = 0 THEN <<>>
        ELSE IF sumFullCycles = 0 THEN <<>>
        ELSE IF sumAssignments > 3 * sumFullCycles
             THEN <<[level |-> "warning", title |-> "High Assignment Frequency"]>>
        ELSE IF sumAssignments >= 2 * n
             THEN <<[level |-> "neutral", title |-> "Assignment Activity"]>>
        ELSE <<>>

evaluateAssignmentRate(runs) ==
    LET n == Len(runs)
        sumAssignments == SumField(runs, "assignments")
        sumFullCycles == SumField(runs, "fullCycles")
    IN  IF n = 0 THEN <<>>
        ELSE IF sumFullCycles = 0 \/ sumAssignments < 3 * n THEN <<>>
        ELSE IF sumAssignments > 3 * sumFullCycles
             THEN <<[level |-> "warning", title |-> "High Assignment Frequency"]>>
        ELSE IF sumAssignments >= 2 * n
             THEN <<[level |-> "neutral", title |-> "Assignment Activity"]>>
        ELSE <<>>

generateInsights(runs, earlier) == earlier \o evaluateAssignmentRate(runs)

\* ---------------------------------------------------------------- direct calls
\* One call of one exported function on arguments drawn from small sets: the
\* unit tests' way of using the executor, the reducer and the evaluator.

Phases == {"idle_cash", "short_put", "holding_eth", "short_call"}
Positions == {[size |-> 1, entryPrice |-> 8], [size |-> 2, entryPrice |-> 12]}
OpenOptions == [type : {"put", "call"}, strike : {10}, delta : {30}, premium : {3},
                openDay : {0}, expiryDay : {2}]
Ledgers == {[realizedPL |-> 0, totalPremiumCollected |-> 0,
             totalAssignments |-> 0, totalSkippedCycles |-> 0],
            [realizedPL |-> 7, totalPremiumCollected |-> 5,
             totalAssignments |-> 1, totalSkippedCycles |-> 1]}
\* every PortfolioState the type admits, consistent or not
Portfolios ==
  {[phase |-> ph, position |-> pos, openOption |-> opt,
    realizedPL |-> l.realizedPL, totalPremiumCollected |-> l.totalPremiumCollected,
    totalAssignments |-> l.totalAssignments, totalSkippedCycles |-> l.totalSkippedCycles] :
     ph \in Phases,
     pos \in {Null} \cup {Some(x) : x \in Positions},
     opt \in {Null} \cup {Some(o) : o \in OpenOptions},
     l \in Ledgers}
Markets == [day : 1..3, spot : {8, 10, 12}]
SellSignals == [action : {"SELL_PUT", "SELL_CALL"}, strike : {9, 11}, delta : {25, 30},
                premium : {0, 2}, rule : {"test"}]
RollSignals == [action : {"ROLL"}, newStrike : {13}, newDelta : {25}, rollCost : {1, 3},
                newPremium : {2}, credit : {1}, rule : {"RollCallRule"}]
Signals == SellSignals \cup RollSignals
             \cup [action : {"SKIP", "CLOSE_POSITION"}, rule : {"test"}]
             \cup {[action |-> "HOLD"]}
ExecConfigs == {c \in Configs : c.adaptiveCalls = Null /\ c.rollCall = Null}

IdleSimulation ==
  /\ config = Null
  /\ day = 0
  /\ prices = <<>>
  /\ portfolio = initialPortfolio
  /\ signalLog = <<>>
  /\ dailyStates = <<>>
  /\ summary = Null

InitExec ==
  /\ pc = "call"
  /\ IdleSimulation
  /\ args \in [market : Markets, portfolio : Portfolios, signal : Signals,
               config : ExecConfigs]
  /\ ret = NoCall

\* executor.resolveExpiration(market, portfolio, config), then applyEvents
CallResolveExpiration ==
  /\ pc = "call"
  /\ pc' = "returned"
  /\ ret' = IF resolveExpirationThrows(args.market, args.portfolio, args.config)
            THEN [fn |-> "resolveExpiration", threw |-> TRUE, events |-> <<>>,
                  after |-> args.portfolio]
            ELSE LET events == resolveExpiration(args.market, args.portfolio, args.config)
                 IN [fn |-> "resolveExpiration", threw |-> FALSE, events |-> events,
                     after |-> applyEvents(args.portfolio, events)]
  /\ UNCHANGED <<config, day, prices, portfolio, signalLog, dailyStates, summary, args>>

\* executor.execute(signal, market, portfolio, config), then applyEvents
CallExecute ==
  /\ pc = "call"
  /\ pc' = "returned"
  /\ LET events == execute(args.signal, args.market, args.portfolio, args.config)
     IN ret' = [fn |-> "execute", threw |-> FALSE, events |-> events,
                after |-> applyEvents(args.portfolio, events)]
  /\ UNCHANGED <<config, day, prices, portfolio, signalLog, dailyStates, summary, args>>

\* isDecisionPoint(day, portfolio)
CallIsDecisionPoint ==
  /\ pc = "call"
  /\ pc' = "returned"
  /\ ret' = [fn |-> "isDecisionPoint",
             value |-> isDecisionPoint(args.market.day, args.portfolio)]
  /\ UNCHANGED <<config, day, prices, portfolio, signalLog, dailyStates, summary, args>>

NextExec == CallResolveExpiration \/ CallExecute \/ CallIsDecisionPoint

SpecExec == InitExec /\ [][NextExec]_vars

\* ---- applyEvents(state, events)
Events ==
  [type : {"OPTION_SOLD"}, optionType : {"put", "call"}, strike : {9}, premium : {2},
   delta : {25}, fees : {1}, openDay : {1}, expiryDay : {3}]
  \cup [type : {"OPTION_EXPIRED"}, optionType : {"put", "call"}, strike : {10},
        spot : {10}, assigned : BOOLEAN]
  \cup [type : {"ETH_BOUGHT"}, price : {10}, size : {1}]
  \cup [type : {"ETH_SOLD"}, price : {10}, size : {1}, pl : {2}]
  \cup [type : {"PREMIUM_COLLECTED"}, grossPremium : {4}, fees : {1}, netAmount : {3}]
  \cup [type : {"CYCLE_SKIPPED"}]
  \cup [type : {"POSITION_CLOSED"}, price : {12}, size : {1}, pl : {4}]
  \cup [type : {"OPTION_ROLLED"}, oldStrike : {10}, newStrike : {13}, newDelta : {25},
        originalPremium : {3}, rollCost : {1, 6}, newPremium : {2}, fees : {2},
        openDay : {1}, expiryDay : {3}]

EventLists == UNION {[1..n -> Events] : n \in 0..MaxEvents}

InitReducer ==
  /\ pc = "call"
  /\ IdleSimulation
  /\ args \in [state : Portfolios, events : EventLists]
  /\ ret = NoCall

\* applyEvents(state, events): what it returns and what the caller's state
\* object holds afterwards
CallApplyEvents ==
  /\ pc = "call"
  /\ pc' = "returned"
  /\ ret' = [fn |-> "applyEvents", after |-> applyEvents(args.state, args.events),
             input |-> applyEventsHeap(args.state, args.events).state]
  /\ UNCHANGED <<config, day, prices, portfolio, signalLog, dailyStates, summary, args>>

\* applyEvents(applyEvents(state, a), b) for a split of the list into a and b,
\* next to applyEvents(state, a ++ b)
CallApplyEventsTwice ==
  /\ pc = "call"
  /\ pc' = "returned"
  /\ \E k \in 0..Len(args.events) :
       LET a == SubSeq(args.events, 1, k)
           b == SubSeq(args.events, k + 1, Len(args.events))
       IN ret' = [fn |-> "applyEventsTwice", split |-> k,
                  after |-> applyEvents(applyEvents(args.state, a), b),
                  once |-> applyEvents(args.state, a \o b)]
  /\ UNCHANGED <<config, day, prices, portfolio, signalLog, dailyStates, summary, args>>

NextReducer == CallApplyEvents \/ CallApplyEventsTwice

SpecReducer == InitReducer /\ [][NextReducer]_vars

\* ---- evaluateRules(rules, market, portfolio, config)
\* strategy.test.ts makeRule: a rule whose evaluate returns a fixed signal or null
TestSignals == [action : {"SKIP"}, rule : {"A", "B"}] \cup {[action |-> "HOLD"]}
TestRules == [priority : {10, 20},
              result : {Null} \cup {Some(sig) : sig \in TestSignals}]
RuleLists == UNION {[1..n -> TestRules] : n \in 0..MaxRules}

InitRules ==
  /\ pc = "call"
  /\ IdleSimulation
  /\ args \in [rules : RuleLists]
  /\ ret = NoCall

CallEvaluateRules ==
  /\ pc = "call"
  /\ pc' = "returned"
  /\ ret' = [fn |-> "evaluateRules",
             signal |-> evaluateRules(args.rules, [r \in TestRules |-> r.result])]
  /\ UNCHANGED <<config, day, prices, portfolio, signalLog, dailyStates, summary, args>>

NextRules == CallEvaluateRules

SpecRules == InitRules /\ [][NextRules]_vars

\* ---- evaluateRules(defaultRules(), market, portfolio, config)
InitDefaultRules ==
  /\ pc = "call"
  /\ IdleSimulation
  /\ args \in [market : Markets, portfolio : Portfolios, config : Configs,
               quote : Quotes]
  /\ ret = NoCall

CallEvaluateDefaultRules ==
  /\ pc = "call"
  /\ pc' = "returned"
  /\ LET evaluate == [rule \in {defaultRules[i] : i \in 1..Len(defaultRules)} |->
                        ruleEvaluate(rule, args.market, args.portfolio, args.config,
                                     args.quote)]
     IN ret' = [fn |-> "evaluateDefaultRules",
                signal |-> evaluateRules(defaultRules, evaluate)]
  /\ UNCHANGED <<config, day, prices, portfolio, signalLog, dailyStates, summary, args>>

NextDefaultRules == CallEvaluateDefaultRules

SpecDefaultRules == InitDefaultRules /\ [][NextDefaultRules]_vars

\* ---------------------------------------------------------------- price-gen.ts
\* A price path: the start price, then days - 1 steps, each the previous
\* price times a positive factor exp(..) that the seeded generator draws.
\* The factor is a pair <<mul, div>>; the sets below make it halve, keep or
\* double the price.  Nothing is checked on entry: a start price of zero or
\* below and a day count below one go through the same loop.

MaxRuns == 2

StartPrices == {-8, 0, 8}

DayCounts == 0..3

Factors == {<<1, 2>>, <<1, 1>>, <<2, 1>>}

FactorPaths(days) == [1..Max(days - 1, 0) -> Factors]

RECURSIVE generatePricesLoop(_, _, _)
generatePricesLoop(path, factors, i) ==
    IF i > Len(factors) THEN path
    ELSE generatePricesLoop(
             Append(path, (path[Len(path)] * factors[i][1]) \div factors[i][2]),
             factors, i + 1)

generatePrices(cfg, factors) ==
    generatePricesLoop(<<cfg.startPrice>>, factors, 1)

\* ---- generatePricesHeston, generatePricesHestonJump: the draws
\* rng is the single stream of one call: [n, draws], n the number of uniforms
\* taken so far and draws the record of each, in order: the step that took
\* it and the variable it went into.  Which variance branch a step takes
\* (psi <= 1.5) and whether its jump uniform is below lambda * dt depend on
\* the numbers drawn; they are inputs here, one answer per step.

MaxSteps == 3

rand(rng, step, use) ==
    [n |-> rng.n + 1,
     draws |-> Append(rng.draws, [index |-> rng.n + 1, step |-> step, use |-> use])]

boxMuller(rng, step, use) == rand(rand(rng, step, use), step, use)

varianceDraw(rng, step, quadratic) ==
    IF quadratic THEN boxMuller(rng, step, "zV") ELSE rand(rng, step, "u")

priceDraws(rng, step) == boxMuller(boxMuller(rng, step, "z1"), step, "z2")

jumpDraws(rng, step, jumps) ==
    LET afterUniform == rand(rng, step, "uJump")
    IN  IF jumps THEN boxMuller(afterUniform, step, "zJ") ELSE afterUniform

hestonJumpStepJumpFirst(rng, step, quadratic, jumps) ==
    priceDraws(jumpDraws(varianceDraw(rng, step, quadratic), step, jumps), step)

hestonJumpStep(rng, step, quadratic, jumps) ==
    jumpDraws(priceDraws(varianceDraw(rng, step, quadratic), step), step, jumps)

hestonStep(rng, step, quadratic) ==
    priceDraws(varianceDraw(rng, step, quadratic), step)

RECURSIVE generatePricesHestonJump(_, _, _, _, _)
generatePricesHestonJump(rng, i, days, quadratic, jumps) ==
    IF i >= days THEN rng
    ELSE generatePricesHestonJump(hestonJumpStep(rng, i, quadratic[i], jumps[i]),
                                  i + 1, days, quadratic, jumps)

RECURSIVE generatePricesHeston(_, _, _, _)
generatePricesHeston(rng, i, days, quadratic) ==
    IF i >= days THEN rng
    ELSE generatePricesHeston(hestonStep(rng, i, quadratic[i]), i + 1, days, quadratic)

splitmix32 == [n |-> 0, draws |-> <<>>]

generatePricesByModel(model, days, quadratic, jumps) ==
    IF model = "heston" THEN generatePricesHeston(splitmix32, 1, days, quadratic)
    ELSE generatePricesHestonJump(splitmix32, 1, days, quadratic, jumps)

\* ---------------------------------------------------------------- monte-carlo.ts
\* Numbers that the code divides are kept as fractions [num, den]; the
\* comparisons read a fraction as the floating-point quotient does: x/0 is
\* +Infinity or -Infinity by the sign of x, 0/0 is NaN, and NaN compares
\* false with everything.

Fraction(n, d) == [num |-> n, den |-> d]

FractionGreater(x, a, b) ==
    IF x.den > 0 THEN x.num * b > a * x.den
    ELSE IF x.den < 0 THEN x.num * b < a * x.den
    ELSE x.num > 0

FractionLess(x, a, b) ==
    IF x.den > 0 THEN x.num * b < a * x.den
    ELSE IF x.den < 0 THEN x.num * b > a * x.den
    ELSE x.num < 0

annualizedReturn(underlyingReturn, days) ==
    Fraction(underlyingReturn.num * 365, underlyingReturn.den * days)

classifyRegimeInclusive(underlyingReturn, days) ==
    IF ~FractionLess(annualizedReturn(underlyingReturn, days), 1, 5) THEN "bull"
    ELSE IF ~FractionGreater(annualizedReturn(underlyingReturn, days), -1, 5) THEN "bear"
    ELSE "sideways"

classifyRegime(underlyingReturn, days) ==
    IF FractionGreater(annualizedReturn(underlyingReturn, days), 1, 5) THEN "bull"
    ELSE IF FractionLess(annualizedReturn(underlyingReturn, days), -1, 5) THEN "bear"
    ELSE "sideways"

\* signalLog.filter(entry => entry.events.some(assigned call expiry)).length
countFullCycles(log) ==
    Cardinality({i \in 1..Len(log) :
        \E k \in 1..Len(log[i].events) :
            /\ log[i].events[k].type = "OPTION_EXPIRED"
            /\ log[i].events[k].optionType = "call"
            /\ log[i].events[k].assigned})

\* What one simulation contributes to its run summary: the figures computed
\* from the simulation's result are drawn here, the figures computed from
\* the price path are computed from the path.
SimOutcomes == {[apr |-> -20, isWin |-> FALSE], [apr |-> 10, isWin |-> TRUE]}

summarizeRun(seed, result, path) ==
    LET p0 == path[1]
        pN == path[Len(path)]
        underlyingReturn == Fraction(pN - p0, p0)
        days == Len(path) - 1
    IN  [seed |-> seed, apr |-> result.apr, isWin |-> result.isWin,
         underlyingReturn |-> underlyingReturn,
         regime |-> classifyRegime(underlyingReturn, IF days > 0 THEN days ELSE 1)]

Regimes == <<"bull", "bear", "sideways">>

regimeGroup(runs, regime) == SelectSeq(runs, LAMBDA r : r.regime = regime)

regimeRecord(runs, regime) ==
    LET group == regimeGroup(runs, regime)
        aprs == [i \in 1..Len(group) |-> group[i].apr]
    IN  IF Len(group) = 0
        THEN [regime |-> regime, count |-> 0, meanAPR |-> Fraction(0, 1),
              winRate |-> Fraction(0, 1)]
        ELSE [regime |-> regime, count |-> Len(group),
              meanAPR |-> Fraction(SumSeq(aprs), Len(group)),
              winRate |-> Fraction(Len(SelectSeq(group, LAMBDA r : r.isWin)), Len(group))]

regimeBreakdownNonEmpty(runs) ==
    SelectSeq([i \in 1..Len(Regimes) |-> regimeRecord(runs, Regimes[i])],
              LAMBDA b : b.count > 0)

regimeBreakdown(runs) ==
    [i \in 1..Len(Regimes) |-> regimeRecord(runs, Regimes[i])]

runMonteCarlo(market, numRuns, factors, results) ==
    LET runs == [seed \in 1..numRuns |->
                    summarizeRun(seed, results[seed],
                                 generatePrices(market, factors[seed]))]
    IN  [outcome |-> "result", runs |-> runs,
         winRate |-> Fraction(Len(SelectSeq(runs, LAMBDA r : r.isWin)), Len(runs)),
         regimeBreakdown |-> regimeBreakdown(runs)]

\* ---- generatePrices(config), runMonteCarlo(market, config, numRuns),
\* ---- classifyRegime(underlyingReturn, days)

MarketParams == [startPrice : StartPrices, days : DayCounts]

UnderlyingReturns ==
    {Fraction(n, d) : n \in {-2, -1, 0, 1, 2}, d \in {5, 10}}

RegimeDays == {182, 365, 730}

InitMonteCarlo ==
    /\ pc = "call"
    /\ args \in [call : {"generatePrices"}, market : MarketParams]
           \cup [call : {"runMonteCarlo"}, market : MarketParams, numRuns : 0..MaxRuns]
           \cup [call : {"classifyRegime"}, underlyingReturn : UnderlyingReturns,
                 days : RegimeDays]
    /\ IdleSimulation
    /\ ret = NoCall

CallGeneratePrices ==
    /\ pc = "call"
    /\ args.call = "generatePrices"
    /\ \E factors \in FactorPaths(args.market.days) :
           ret' = [fn |-> "generatePrices", outcome |-> "result",
                   prices |-> generatePrices(args.market, factors)]
    /\ pc' = "returned"
    /\ UNCHANGED <<config, day, prices, portfolio, signalLog, dailyStates, summary, args>>

CallRunMonteCarlo ==
    /\ pc = "call"
    /\ args.call = "runMonteCarlo"
    /\ \E factors \in [1..args.numRuns -> FactorPaths(args.market.days)],
          results \in [1..args.numRuns -> SimOutcomes] :
           ret' = [fn |-> "runMonteCarlo"]
                      @@ runMonteCarlo(args.market, args.numRuns, factors, results)
    /\ pc' = "returned"
    /\ UNCHANGED <<config, day, prices, portfolio, signalLog, dailyStates, summary, args>>

CallClassifyRegime ==
    /\ pc = "call"
    /\ args.call = "classifyRegime"
    /\ ret' = [fn |-> "classifyRegime",
               regime |-> classifyRegime(args.underlyingReturn, args.days)]
    /\ pc' = "returned"
    /\ UNCHANGED <<config, day, prices, portfolio, signalLog, dailyStates, summary, args>>

NextMonteCarlo == CallGeneratePrices \/ CallRunMonteCarlo \/ CallClassifyRegime

SpecMonteCarlo == InitMonteCarlo /\ [][NextMonteCarlo]_vars

\* ---- generateInsights(mc, config)
\* A run's assignments and full cycles as a simulation can count them: a
\* full cycle is an assigned call, which an assigned put precedes.

AssignmentCounts ==
    {r \in [assignments : {0, 1, 2, 3, 4, 6, 7, 10}, fullCycles : {0, 1, 2}] :
        r.assignments >= 2 * r.fullCycles}

RunLists == UNION {[1..n -> AssignmentCounts] : n \in 0..MaxRuns}

EarlierInsights == {<<>>, <<[level |-> "warning", title |-> "Low Win Rate"]>>}

InitInsights ==
  /\ pc = "call"
  /\ IdleSimulation
  /\ args \in [runs : RunLists, earlier : EarlierInsights]
  /\ ret = NoCall

CallGenerateInsights ==
  /\ pc = "call"
  /\ pc' = "returned"
  /\ ret' = [fn |-> "generateInsights",
             insights |-> generateInsights(args.runs, args.earlier)]
  /\ UNCHANGED <<config, day, prices, portfolio, signalLog, dailyStates, summary, args>>

NextInsights == CallGenerateInsights

SpecInsights == InitInsights /\ [][NextInsights]_vars

\* ---- findStrikeForDelta(targetAbsDelta, spot, T, r, sigma, type)

BisectionSpots == {64, 1024}

MaxComparisons == 9

DeltaComparisons == [1..MaxComparisons -> BOOLEAN]

InitBisection ==
  /\ pc = "call"
  /\ IdleSimulation
  /\ args \in [spot : BisectionSpots, type : {"put", "call"}, above : DeltaComparisons]
  /\ ret = NoCall

CallFindStrikeForDelta ==
  /\ pc = "call"
  /\ pc' = "returned"
  /\ ret' = [fn |-> "findStrikeForDelta"]
               @@ findStrikeForDeltaBisection(args.spot, args.type, args.above)
  /\ UNCHANGED <<config, day, prices, portfolio, signalLog, dailyStates, summary, args>>

NextBisection == CallFindStrikeForDelta

SpecBisection == InitBisection /\ [][NextBisection]_vars

\* ---- generatePrices(config) with model "heston" or "heston-jump"

InitPriceModels ==
  /\ pc = "call"
  /\ IdleSimulation
  /\ args \in [model : {"heston", "heston-jump"}, days : 1..(MaxSteps + 1),
               quadratic : [1..MaxSteps -> BOOLEAN], jumps : [1..MaxSteps -> BOOLEAN]]
  /\ ret = NoCall

CallGeneratePricesByModel ==
  /\ pc = "call"
  /\ pc' = "returned"
  /\ ret' = [fn |-> "generatePrices"]
               @@ generatePricesByModel(args.model, args.days, args.quadratic, args.jumps)
  /\ UNCHANGED <<config, day, prices, portfolio, signalLog, dailyStates, summary, args>>

NextPriceModels == CallGeneratePricesByModel

SpecPriceModels == InitPriceModels /\ [][NextPriceModels]_vars

\* ---- computeRealizedVol
\* Prices enter by their logarithms, whole numbers of one log step, so that
\* a daily log return is a difference of two of them.  The variance is the
\* fraction the code divides out: with n returns of sum S and sum of squares
\* Q, sum((r - S/n)^2) / (n - 1) = (n Q - S^2) / (n (n - 1)).  The number
\* returned is sqrt(variance) * sqrt(365): finite exactly when the variance
\* is, zero exactly when the variance is.

computeRealizedVol(logPrices, atDay, lookback) ==
    IF atDay < lookback THEN [kind |-> "undefined"]
    ELSE LET indices == (atDay - lookback + 1)..atDay
             logReturns == [i \in indices |-> logPrices[i] - logPrices[i - 1]]
             n == Cardinality(indices)
             S == SumSeq([k \in 1..n |-> logReturns[atDay - lookback + k]])
             Q == SumSeq([k \in 1..n |-> logReturns[atDay - lookback + k]
                                          * logReturns[atDay - lookback + k]])
         IN  [kind |-> "number",
              variance |-> Fraction(n * Q - S * S, n * (n - 1)),
              read |-> indices \cup {i - 1 : i \in indices}]

\* ---- computeRealizedVol(prices, day, lookback)

LogPrices == [0..3 -> {0, 1, 2}]

InitRealizedVol ==
  /\ pc = "call"
  /\ IdleSimulation
  /\ args \in [logPrices : LogPrices, day : 0..3, lookback : 1..3]
  /\ ret = NoCall

CallComputeRealizedVol ==
  /\ pc = "call"
  /\ pc' = "returned"
  /\ ret' = [fn |-> "computeRealizedVol"]
               @@ computeRealizedVol(args.logPrices, args.day, args.lookback)
  /\ UNCHANGED <<config, day, prices, portfolio, signalLog, dailyStates, summary, args>>

NextRealizedVol == CallComputeRealizedVol

SpecRealizedVol == InitRealizedVol /\ [][NextRealizedVol]_vars

\* ================================================================ properties
\* ---- of a simulation (Spec)
Consistent(p) ==
  /\ p.position # Null <=> p.phase \in {"holding_eth", "short_call"}
  /\ p.openOption # Null <=> p.phase \in {"short_put", "short_call"}

HasEvent(entry, t) == \E k \in 1..Len(entry.events) : entry.events[k].type = t
IsExpiryEntry(entry) == HasEvent(entry, "OPTION_EXPIRED")
LogEvents == Flatten([i \in 1..Len(signalLog) |-> signalLog[i].events])
SumGrossPremium(events) ==
  LET sel == SelectType(events, "PREMIUM_COLLECTED")
  IN SumSeq([k \in 1..Len(sel) |-> sel[k].grossPremium])
SumNewPremium(events) ==
  LET sel == SelectType(events, "OPTION_ROLLED")
  IN SumSeq([k \in 1..Len(sel) |-> sel[k].newPremium])

\* C1: at the end of every day, and in every logged portfolioBefore and
\* portfolioAfter, a position is present iff the phase is holding_eth or
\* short_call and an open option is present iff the phase is short_put or
\* short_call.
C1_PhaseConsistency ==
  /\ Consistent(portfolio)
  /\ \A i \in 1..Len(signalLog) :
       /\ Consistent(signalLog[i].portfolioBefore)
       /\ Consistent(signalLog[i].portfolioAfter)
  /\ \A d \in 1..Len(dailyStates) :
       dailyStates[d].holdingETH <=> dailyStates[d].phase \in {"holding_eth", "short_call"}

\* a whole turn of the wheel: put assigned, call sold, call assigned, put sold
C1_Witness ==
  /\ portfolio.phase = "short_put"
  /\ portfolio.totalAssignments >= 2
  /\ \E i, j \in 1..Len(signalLog) :
       /\ signalLog[i].portfolioAfter.phase = "holding_eth"
       /\ signalLog[j].portfolioAfter.phase = "short_call"

\* C2: the summary's totalPremiumCollected is the sum of grossPremium over the
\* log's PREMIUM_COLLECTED events plus the sum of newPremium over its
\* OPTION_ROLLED events.
C2_PremiumBookedOnce ==
  pc = "done" =>
    Get(summary).totalPremiumCollected
      = SumGrossPremium(LogEvents) + SumNewPremium(LogEvents)

C2_Witness ==
  /\ pc = "done"
  /\ SumGrossPremium(LogEvents) > 0
  /\ SumNewPremium(LogEvents) > 0
  /\ config.feePerTrade > 0

C4_ExpiryBeforeRules ==
  [][(/\ pc = "loop"
      /\ day' = day + 1
      /\ portfolio.openOption # Null
      /\ day >= Get(portfolio.openOption).expiryDay)
     => LET n == Len(signalLog)
            expiry == signalLog'[n + 1]
            signalled == signalLog'[n + 2]
        IN /\ Len(signalLog') = n + 2
           /\ expiry.day = day
           /\ expiry.signal = [action |-> "HOLD"]
           /\ expiry.events[1].type = "OPTION_EXPIRED"
           /\ expiry.portfolioBefore = portfolio
           /\ expiry.portfolioAfter.openOption = Null
           /\ signalled.day = day
           /\ signalled.signal.action \in {"SELL_PUT", "SELL_CALL", "SKIP"}
           /\ signalled.portfolioBefore = expiry.portfolioAfter
           /\ signalled.signal.action = "SELL_PUT"
                <=> expiry.portfolioAfter.phase = "idle_cash"
           /\ portfolio' = signalled.portfolioAfter]_vars

\* an option expires and a new call is sold on the same day
C4_Witness ==
  \E i \in 1..Len(signalLog) - 1 :
    /\ IsExpiryEntry(signalLog[i])
    /\ signalLog[i].signal.action = "HOLD"
    /\ signalLog[i + 1].day = signalLog[i].day
    /\ signalLog[i + 1].signal.action = "SELL_CALL"
    /\ signalLog[i + 1].portfolioAfter.openOption # Null

\* ---- of one call of the executor or of isDecisionPoint (SpecExec)

\* C5: isDecisionPoint(day, portfolio) is true iff there is no open option or
\* day >= expiryDay: with an open option it is false on every earlier day,
\* expiryDay - 1 included, and true on expiryDay and later.
C5_IsDecisionPoint ==
  ret.fn = "isDecisionPoint" =>
    LET p == args.portfolio
        d == args.market.day
    IN /\ ret.value <=> (p.openOption = Null \/ d >= Get(p.openOption).expiryDay)
       /\ p.openOption # Null /\ d < Get(p.openOption).expiryDay => ~ret.value
       /\ p.openOption # Null /\ d = Get(p.openOption).expiryDay - 1 => ~ret.value
       /\ p.openOption # Null /\ d = Get(p.openOption).expiryDay => ret.value

\* the open option's expiry day itself
C5_Witness ==
  /\ ret.fn = "isDecisionPoint"
  /\ args.portfolio.openOption # Null
  /\ args.market.day = Get(args.portfolio.openOption).expiryDay
  /\ ret.value

C9_NotApplicable ==
  LET p == args.portfolio
      nothing == ~ret.threw /\ ret.events = <<>> /\ ret.after = p
  IN /\ ret.fn = "resolveExpiration" /\ p.openOption = Null => nothing
     /\ ret.fn = "execute" /\ args.signal.action = "CLOSE_POSITION" /\ p.position = Null
          => nothing
     /\ ret.fn = "execute" /\ args.signal.action = "ROLL" /\ p.openOption = Null
          => nothing
     /\ ret.fn = "execute" /\ args.signal.action = "HOLD" => nothing

\* a ROLL signal executed on a portfolio that holds ETH but has no open option
C9_Witness ==
  /\ ret.fn = "execute"
  /\ args.signal.action = "ROLL"
  /\ args.portfolio.openOption = Null
  /\ args.portfolio.position # Null
  /\ ret.events = <<>>
  /\ ret.after = args.portfolio

\* ---- of one call of applyEvents (SpecReducer)

\* C10: applying an OPTION_ROLLED event adds newPremium to
\* totalPremiumCollected and newPremium - rollCost - fees to realizedPL, makes
\* openOption a call with the event's newStrike, newDelta, newPremium, openDay
\* and expiryDay, and leaves phase, position, totalAssignments and
\* totalSkippedCycles as they were.
C10_OptionRolled ==
  (/\ ret.fn = "applyEvents"
   /\ Len(args.events) = 1
   /\ args.events[1].type = "OPTION_ROLLED")
  => LET s == args.state
         e == args.events[1]
         a == ret.after
     IN /\ a.totalPremiumCollected = s.totalPremiumCollected + e.newPremium
        /\ a.realizedPL = s.realizedPL + e.newPremium - e.rollCost - e.fees
        /\ a.openOption = Some([type |-> "call", strike |-> e.newStrike,
                                delta |-> e.newDelta, premium |-> e.newPremium,
                                openDay |-> e.openDay, expiryDay |-> e.expiryDay])
        /\ a.phase = s.phase
        /\ a.position = s.position
        /\ a.totalAssignments = s.totalAssignments
        /\ a.totalSkippedCycles = s.totalSkippedCycles

\* a short call rolled at a net debit
C10_Witness ==
  /\ ret.fn = "applyEvents"
  /\ Len(args.events) = 1
  /\ args.events[1].type = "OPTION_ROLLED"
  /\ args.state.phase = "short_call"
  /\ args.state.position # Null
  /\ args.state.openOption # Null
  /\ args.state.totalPremiumCollected > 0
  /\ ret.after.realizedPL < args.state.realizedPL
  /\ ret.after.openOption # args.state.openOption

\* ---- of one call of evaluateRules (SpecRules)
NonNull(rules) == {i \in 1..Len(rules) : rules[i].result # Null}
\* the non-null rule of the smallest priority number, the earliest in the list on a tie
Winner(rules) ==
  CHOOSE i \in NonNull(rules) :
    \A j \in NonNull(rules) :
      \/ rules[i].priority < rules[j].priority
      \/ rules[i].priority = rules[j].priority /\ i <= j
WinnerSignal ==
  IF NonNull(args.rules) = {} THEN [action |-> "HOLD"]
  ELSE Get(args.rules[Winner(args.rules)].result)

\* C6 as stated: evaluateRules returns the signal of the non-null rule with the
\* smallest priority number, ties broken by position in the input list, whatever
\* the order of the list, and returns HOLD iff every rule returns null.
C6_HoldIffAllNull ==
  ret.fn = "evaluateRules" =>
    /\ ret.signal = WinnerSignal
    /\ ret.signal.action = "HOLD" <=> NonNull(args.rules) = {}

\* C6 amended: evaluateRules returns the signal of the non-null rule with the
\* smallest priority number, ties broken by position in the input list, whatever
\* the order of the list; it returns HOLD when every rule returns null, and
\* otherwise only when that rule's own signal is HOLD.
C6_FirstByPriority ==
  ret.fn = "evaluateRules" =>
    /\ ret.signal = WinnerSignal
    /\ NonNull(args.rules) = {} => ret.signal.action = "HOLD"
    /\ ret.signal.action = "HOLD" =>
         \/ NonNull(args.rules) = {}
         \/ Get(args.rules[Winner(args.rules)].result).action = "HOLD"

\* a priority-20 rule listed first loses to two tied priority-10 rules, of
\* which the earlier one wins
C6_Witness ==
  /\ ret.fn = "evaluateRules"
  /\ Len(args.rules) = 3
  /\ args.rules[1].priority = 20 /\ args.rules[1].result # Null
  /\ args.rules[2].priority = 10 /\ args.rules[2].result # Null
  /\ args.rules[3].priority = 10 /\ args.rules[3].result # Null
  /\ args.rules[2].result # args.rules[3].result
  /\ args.rules[1].result # args.rules[2].result
  /\ ret.signal = Get(args.rules[2].result)

\* ---- of a simulation (Spec): rolls
\* spot >= strike * (1 + itmThresholdPct)
PastRollThreshold(spot, opt, cfg) ==
  100 * spot >= opt.strike * (100 + Get(cfg.rollCall).itmThresholdPct)

C12_RollOnlyMidCycle ==
  \A i \in 1..Len(signalLog) :
    LET entry == signalLog[i]
        b == entry.portfolioBefore
    IN /\ entry.signal.action = "ROLL" =>
            /\ b.phase = "short_call"
            /\ b.openOption # Null
            /\ config.rollCall # Null
            /\ entry.day < Get(b.openOption).expiryDay
            /\ PastRollThreshold(entry.market.spot, Get(b.openOption), config)
       /\ (b.openOption # Null /\ entry.day >= Get(b.openOption).expiryDay) =>
            /\ entry.signal.action = "HOLD"
            /\ IsExpiryEntry(entry)

\* a call rolled on the day before its expiry, under requireNetCredit
C12_Witness ==
  \E i \in 1..Len(signalLog) :
    /\ signalLog[i].signal.action = "ROLL"
    /\ signalLog[i].portfolioBefore.openOption # Null
    /\ signalLog[i].day = Get(signalLog[i].portfolioBefore.openOption).expiryDay - 1
    /\ Get(config.rollCall).requireNetCredit

\* ---- of a simulation (Spec): skips
\* C13: after a SKIP executed on day d the portfolio is in holding_eth with no
\* open option, and no SELL_CALL is executed before day d + cycleLengthDays.
C13_SkipLastsOneCycle ==
  \A i \in 1..Len(signalLog) :
    signalLog[i].signal.action = "SKIP" =>
      /\ signalLog[i].portfolioAfter.phase = "holding_eth"
      /\ signalLog[i].portfolioAfter.openOption = Null
      /\ \A j \in (i + 1)..Len(signalLog) :
           signalLog[j].signal.action = "SELL_CALL" =>
             signalLog[j].day >= signalLog[i].day + config.cycleLengthDays

\* ---- of a simulation (Spec): the phase machine and the counters
\* what a log entry did: its signal's action, or for the HOLD entry of an
\* expiry the expired option's type and whether it was assigned
EntryKind(entry) ==
  IF entry.signal.action = "HOLD" /\ IsExpiryEntry(entry)
  THEN <<"expired", entry.events[1].optionType, entry.events[1].assigned>>
  ELSE <<entry.signal.action>>

\* the documented state machine: <<from, what, to>>
PhaseEdges ==
  {<<"idle_cash", <<"SELL_PUT">>, "short_put">>,
   <<"short_put", <<"expired", "put", FALSE>>, "idle_cash">>,
   <<"short_put", <<"expired", "put", TRUE>>, "holding_eth">>,
   <<"holding_eth", <<"SELL_CALL">>, "short_call">>,
   <<"holding_eth", <<"SKIP">>, "holding_eth">>,
   <<"holding_eth", <<"CLOSE_POSITION">>, "idle_cash">>,
   <<"short_call", <<"expired", "call", FALSE>>, "holding_eth">>,
   <<"short_call", <<"expired", "call", TRUE>>, "idle_cash">>,
   <<"short_call", <<"ROLL">>, "short_call">>}

\* C14: every log entry moves the phase along an edge of the documented state
\* machine, the first entry starts from idle_cash, each entry starts from the
\* phase the previous one ended in, and the portfolio is in the phase the last
\* entry ended in.
C14_PhaseMachine ==
  /\ \A i \in 1..Len(signalLog) :
       <<signalLog[i].portfolioBefore.phase, EntryKind(signalLog[i]),
         signalLog[i].portfolioAfter.phase>> \in PhaseEdges
  /\ \A i \in 1..Len(signalLog) :
       signalLog[i].portfolioBefore.phase
         = IF i = 1 THEN "idle_cash" ELSE signalLog[i - 1].portfolioAfter.phase
  /\ portfolio.phase = IF signalLog = <<>> THEN "idle_cash"
                       ELSE signalLog[Len(signalLog)].portfolioAfter.phase

\* a run through put assignment, a skip, a call sale and the call's assignment
C14_Witness ==
  \E i, j, k \in 1..Len(signalLog) :
    /\ i < j /\ j < k
    /\ EntryKind(signalLog[i]) = <<"SKIP">>
    /\ EntryKind(signalLog[j]) = <<"SELL_CALL">>
    /\ EntryKind(signalLog[k]) = <<"expired", "call", TRUE>>
    /\ portfolio.phase = "short_put"

AssignedExpiries(events) ==
  SelectSeq(events, LAMBDA e : e.type = "OPTION_EXPIRED" /\ e.assigned)

\* C15: the summary's totalAssignments is the number of OPTION_EXPIRED events
\* with assigned = true in the log.
C15_AssignmentsCounted ==
  pc = "done" =>
    Get(summary).totalAssignments = Len(AssignedExpiries(LogEvents))

\* a finished run with an assigned and an unassigned expiry
C15_Witness ==
  /\ pc = "done"
  /\ Get(summary).totalAssignments = 1
  /\ Len(SelectType(LogEvents, "OPTION_EXPIRED")) = 2

\* C16: the summary's totalSkippedCycles is the number of CYCLE_SKIPPED events
\* in the log, which is the number of log entries whose signal is SKIP.
C16_SkipsCounted ==
  pc = "done" =>
    /\ Get(summary).totalSkippedCycles = Len(SelectType(LogEvents, "CYCLE_SKIPPED"))
    /\ Get(summary).totalSkippedCycles
         = Cardinality({i \in 1..Len(signalLog) : signalLog[i].signal.action = "SKIP"})

\* a finished run that skipped on two days
C16_Witness ==
  /\ pc = "done"
  /\ Get(summary).totalSkippedCycles = 2
  /\ Len(SelectType(LogEvents, "CYCLE_SKIPPED")) = 2

CountersNotBelow(a, b) ==
  /\ a.totalPremiumCollected >= b.totalPremiumCollected
  /\ a.totalAssignments >= b.totalAssignments
  /\ a.totalSkippedCycles >= b.totalSkippedCycles

\* C17: premiums being non-negative, totalPremiumCollected, totalAssignments
\* and totalSkippedCycles never decrease from one day to the next, nor from a
\* log entry's portfolioBefore to its portfolioAfter.
C17_CountersMonotone ==
  [][/\ CountersNotBelow(portfolio', portfolio)
     /\ \A i \in 1..Len(signalLog') :
          CountersNotBelow(signalLog'[i].portfolioAfter, signalLog'[i].portfolioBefore)]_vars

\* all three counters have moved, the premium after a sale at a net loss to fees
C17_Witness ==
  /\ portfolio.totalPremiumCollected > 0
  /\ portfolio.totalAssignments > 0
  /\ portfolio.totalSkippedCycles > 0
  /\ \E i \in 1..Len(signalLog) :
       /\ HasEvent(signalLog[i], "PREMIUM_COLLECTED")
       /\ signalLog[i].portfolioAfter.realizedPL < signalLog[i].portfolioBefore.realizedPL

\* realizedPL after the last log entry of day d or earlier, 0 if there is none
RealizedAtEndOf(d) ==
  LET upTo == {i \in 1..Len(signalLog) : signalLog[i].day <= d}
  IN IF upTo = {} THEN 0
     ELSE signalLog[CHOOSE i \in upTo : \A j \in upTo : j <= i].portfolioAfter.realizedPL

\* C18: the daily state of day d carries as cumulativePL the realizedPL the
\* portfolio has after all of day d's events, and the last daily state's
\* cumulativePL is the summary's totalRealizedPL.
C18_CumulativeIsRealized ==
  /\ \A k \in 1..Len(dailyStates) :
       /\ dailyStates[k].day = k - 1
       /\ dailyStates[k].cumulativePL = RealizedAtEndOf(k - 1)
  /\ (pc = "done" /\ dailyStates # <<>>) =>
       dailyStates[Len(dailyStates)].cumulativePL = Get(summary).totalRealizedPL

\* a finished run that realized a P/L while it carried an unrealized one
C18_Witness ==
  /\ pc = "done"
  /\ Len(dailyStates) >= 3
  /\ Get(summary).totalRealizedPL # 0
  /\ dailyStates[Len(dailyStates)].unrealizedPL # 0
  /\ \E k \in 1..(Len(dailyStates) - 1) :
       dailyStates[k].cumulativePL # dailyStates[k + 1].cumulativePL

\* ---- of calls of applyEvents (SpecReducer), continued

\* C19: applyEvents is a left fold: applyEvents(applyEvents(s, a), b) equals
\* applyEvents(s, a ++ b) for every state s and lists a and b, and
\* applyEvents(s, []) equals s.
C19_LeftFold ==
  /\ ret.fn = "applyEventsTwice" => ret.after = ret.once
  /\ (ret.fn = "applyEvents" /\ args.events = <<>>) => ret.after = args.state

\* a list split into two non-empty parts, each of which changes the state
C19_Witness ==
  /\ ret.fn = "applyEventsTwice"
  /\ ret.split > 0
  /\ ret.split < Len(args.events)
  /\ ret.after # args.state
  /\ ret.after # applyEvents(args.state, SubSeq(args.events, 1, ret.split))
  /\ ret.after = ret.once

\* C20: applyEvents does not mutate its argument: after the call the caller's
\* state object, its position and openOption included, is what it was before,
\* for every event list.
C20_InputNotMutated ==
  ret.fn = "applyEvents" => ret.input = args.state

\* a call whose result differs from its argument in phase, position and open option
C20_Witness ==
  /\ ret.fn = "applyEvents"
  /\ args.events # <<>>
  /\ args.state.position # Null
  /\ args.state.openOption # Null
  /\ ret.after.phase # args.state.phase
  /\ ret.after.position # args.state.position
  /\ ret.after.openOption # args.state.openOption
  /\ ret.input = args.state

C22_DefaultRulesByPhase ==
  ret.fn = "evaluateDefaultRules" =>
    LET p == args.portfolio
        cfg == args.config
        premium == (args.quote.rawPremium * (100 - cfg.bidAskSpreadPct)) \div 100
        netPremium == premium * cfg.contracts - cfg.feePerTrade * cfg.contracts
        skip == /\ cfg.adaptiveCalls # Null
                /\ p.position # Null
                /\ 100 * netPremium
                     < Get(cfg.adaptiveCalls).skipThresholdPct
                         * (Get(p.position).entryPrice * cfg.contracts)
    IN /\ p.phase = "idle_cash" => ret.signal.action = "SELL_PUT"
       /\ p.phase = "holding_eth" =>
            ret.signal.action = IF skip THEN "SKIP" ELSE "SELL_CALL"
       /\ p.phase = "short_put" => ret.signal.action = "HOLD"
       /\ (p.phase = "short_call" /\ cfg.rollCall = Null) => ret.signal.action = "HOLD"

\* the skip rule preempting the call rule
C22_Witness ==
  /\ ret.fn = "evaluateDefaultRules"
  /\ args.portfolio.phase = "holding_eth"
  /\ args.portfolio.position # Null
  /\ args.config.adaptiveCalls # Null
  /\ args.quote.rawPremium = 0
  /\ ret.signal.action = "SKIP"
  /\ ret.signal.rule = "LowPremiumSkipRule"

\* ---- of one call of the executor (SpecExec), continued

\* C24: resolveExpiration and execute return an event list, without throwing,
\* for every market snapshot, portfolio and config.
C24_ExecutorNeverThrows ==
  ret.fn \in {"resolveExpiration", "execute"} => ~ret.threw

\* ---- of one call of the price generator or the Monte Carlo driver (SpecMonteCarlo)

InvalidMarket(market) == market.startPrice <= 0 \/ market.days < 1

\* C25: a start price of zero or below, or a day count below one, is detected
\* on entry by generatePrices and by runMonteCarlo, and the call ends in an
\* error outcome instead of a result.
C25_InvalidInputsRejected ==
    (/\ pc = "returned"
     /\ ret.fn \in {"generatePrices", "runMonteCarlo"}
     /\ InvalidMarket(args.market))
        => ret.outcome = "error"

CountOf(runs, regime) ==
    Cardinality({i \in 1..Len(runs) : runs[i].regime = regime})

\* C26: the regime breakdown of a Monte Carlo result has exactly the three
\* entries bull, bear, sideways, in that order; each entry counts the runs
\* classified into its regime, every run is in exactly one of the three, the
\* counts add up to the number of runs, and an entry without runs has the
\* count 0 and all its means 0.
C26_RegimeBreakdownComplete ==
    (pc = "returned" /\ ret.fn = "runMonteCarlo") =>
        /\ Len(ret.regimeBreakdown) = 3
        /\ \A i \in 1..3 :
              /\ ret.regimeBreakdown[i].regime = Regimes[i]
              /\ ret.regimeBreakdown[i].count = CountOf(ret.runs, Regimes[i])
              /\ ret.regimeBreakdown[i].count = 0 =>
                    /\ ret.regimeBreakdown[i].meanAPR.num = 0
                    /\ ret.regimeBreakdown[i].winRate.num = 0
        /\ \A r \in 1..Len(ret.runs) :
              Cardinality({i \in 1..3 : Regimes[i] = ret.runs[r].regime}) = 1
        /\ Len(ret.runs) = args.numRuns
        /\ SumSeq([i \in 1..3 |-> ret.regimeBreakdown[i].count]) = args.numRuns

C26_Witness ==
    /\ pc = "returned"
    /\ ret.fn = "runMonteCarlo"
    /\ args.numRuns = 2
    /\ ret.regimeBreakdown[1].count = 1
    /\ ret.regimeBreakdown[2].count = 0
    /\ ret.regimeBreakdown[3].count = 1

\* C27: classifyRegime answers bull exactly when the return annualized over
\* the given days, underlyingReturn * 365 / days, is above 0.20, bear exactly
\* when it is below -0.20, and sideways otherwise; a return annualizing to
\* exactly 0.20 or -0.20 is sideways.
C27_RegimeThresholds ==
    (pc = "returned" /\ ret.fn = "classifyRegime") =>
        LET n == args.underlyingReturn.num * 365 * 5
            d == args.underlyingReturn.den * args.days
        IN  /\ ret.regime = "bull" <=> n > d
            /\ ret.regime = "bear" <=> n < -d
            /\ ret.regime = "sideways" <=> (n <= d /\ n >= -d)

C27_Witness ==
    /\ pc = "returned"
    /\ ret.fn = "classifyRegime"
    /\ args.underlyingReturn = Fraction(1, 5)
    /\ args.days = 365
    /\ ret.regime = "sideways"

\* ---- of one call of generateInsights (SpecInsights)

AssignmentTitles == {"High Assignment Frequency", "Assignment Activity"}

AssignmentInsights(insights) ==
    SelectSeq(insights, LAMBDA i : i.title \in AssignmentTitles)

Width(b) == b.hi - b.lo

\* C29: findStrikeForDelta ends after at most 100 iterations and stops at the
\* first iteration that leaves the bracket narrower than 0.01; the bracket
\* starts at [0.5 spot, spot] for a put and [spot, 1.5 spot] for a call, each
\* iteration halves it, it never leaves the initial bracket, and the strike
\* returned is the midpoint of the last bracket: a put strike is never above
\* the spot and a call strike never below it.
C29_BisectionBracket ==
    (pc = "returned" /\ ret.fn = "findStrikeForDelta") =>
        LET b == ret.brackets
            iterations == Len(b) - 1
        IN  /\ iterations >= 1
            /\ iterations <= 100
            /\ args.type = "put" => (2 * b[1].lo = args.spot /\ b[1].hi = args.spot)
            /\ args.type = "call" => (b[1].lo = args.spot /\ 2 * b[1].hi = 3 * args.spot)
            /\ \A k \in 1..iterations :
                  /\ 2 * Width(b[k + 1]) = Width(b[k])
                  /\ b[k + 1].lo >= b[1].lo
                  /\ b[k + 1].hi <= b[1].hi
                  /\ b[k + 1].lo <= b[k + 1].hi
            /\ \A k \in 1..(iterations - 1) : Width(b[k + 1]) >= 4
            /\ Width(b[iterations + 1]) < 4 \/ iterations = 100
            /\ 2 * ret.strike = b[iterations + 1].lo + b[iterations + 1].hi
            /\ args.type = "put" => ret.strike <= args.spot
            /\ args.type = "call" => ret.strike >= args.spot

C29_Witness ==
    /\ pc = "returned"
    /\ ret.fn = "findStrikeForDelta"
    /\ args.type = "put"
    /\ args.spot = 1024
    /\ Len(ret.brackets) = 9
    /\ ret.strike = args.spot - 1

\* ---- of one call of findStrikeForDelta (SpecBisection): the delta reached

TargetDeltas == {1000, 3000, 5000}

\* The answers the bisection was given are those of the tabulated deltas
\* for this target.
ComparisonsFollow(target) ==
    \A k \in 1..(Len(ret.brackets) - 1) :
        args.above[k] =
            (absDelta(args.type, (ret.brackets[k].lo + ret.brackets[k].hi) \div 2) > target)

\* C30: for a target absolute delta in (0, 0.5], put or call, the strike
\* findStrikeForDelta returns has an absolute Black-Scholes delta within
\* 0.001 of the target.
C30_DeltaWithinTolerance ==
    (pc = "returned" /\ ret.fn = "findStrikeForDelta" /\ args.spot \in TabulatedSpots) =>
        \A target \in TargetDeltas :
            ComparisonsFollow(target) =>
                Abs(absDelta(args.type, ret.strike) - target) < 10

\* ---- of one call of generatePrices with a Heston model (SpecPriceModels)

UsesOfStep(draws, step) ==
    LET mine == SelectSeq(draws, LAMBDA d : d.step = step)
    IN  [k \in 1..Len(mine) |-> mine[k].use]

ExpectedUses(model, quadratic, jumps) ==
    (IF quadratic THEN <<"zV", "zV">> ELSE <<"u">>)
    \o <<"z1", "z1", "z2", "z2">>
    \o (IF model = "heston-jump"
        THEN <<"uJump">> \o (IF jumps THEN <<"zJ", "zJ">> ELSE <<>>)
        ELSE <<>>)

\* C31: every daily step of the Heston+Jump model takes its uniforms from
\* the one stream in this order: the variance draw (a normal, two uniforms,
\* in the quadratic branch; one uniform in the exponential branch), two
\* price normals (four uniforms), the jump uniform, and a jump normal (two
\* uniforms) only when the jump uniform is below lambda * dt; nothing else
\* is drawn, and the Heston model takes the same draws without the jump's.
C31_DrawOrder ==
    (pc = "returned" /\ ret.fn = "generatePrices") =>
        /\ \A k \in 1..Len(ret.draws) : ret.draws[k].index = k
        /\ \A k \in 1..(Len(ret.draws) - 1) : ret.draws[k].step <= ret.draws[k + 1].step
        /\ \A k \in 1..Len(ret.draws) : ret.draws[k].step \in 1..(args.days - 1)
        /\ \A step \in 1..(args.days - 1) :
              UsesOfStep(ret.draws, step)
                  = ExpectedUses(args.model, args.quadratic[step], args.jumps[step])

C31_Witness ==
    /\ pc = "returned"
    /\ ret.fn = "generatePrices"
    /\ args.model = "heston-jump"
    /\ args.days = 3
    /\ args.quadratic[1] /\ ~args.quadratic[2]
    /\ args.jumps[1] /\ ~args.jumps[2]
    /\ ret.n = 9 + 6

\* ---- of one call of computeRealizedVol (SpecRealizedVol)

\* a fraction read as the floating-point quotient: neither NaN nor infinite
Finite(x) == x.den # 0

\* C32: computeRealizedVol returns no value when day < lookback; for every
\* lookback >= 1 and day >= lookback it returns a finite number that is not
\* negative, computed from the lookback log returns ending at day, reading
\* prices[day - lookback .. day] only; for a constant price series it is 0.
C32_RealizedVolFinite ==
    (pc = "returned" /\ ret.fn = "computeRealizedVol") =>
        /\ args.day < args.lookback <=> ret.kind = "undefined"
        /\ ret.kind = "number" =>
              /\ Finite(ret.variance)
              /\ ~FractionLess(ret.variance, 0, 1)
              /\ ret.read = (args.day - args.lookback)..args.day
              /\ (\A i \in ret.read : args.logPrices[i] = args.logPrices[args.day])
                     => ret.variance.num = 0

\* ---- of a simulation (Spec): the log as a chain

LastLogged ==
    IF signalLog = <<>> THEN initialPortfolio
    ELSE signalLog[Len(signalLog)].portfolioAfter

\* C33: the signal log is a chain of portfolio states without gaps: the
\* first entry starts from initialPortfolio(), every later entry starts from
\* the portfolio the entry before it ended with, every entry ends with
\* applyEvents of its start and its events, the days of the entries never go
\* down, the portfolio is at all times the one the last entry ended with
\* (it changes through logged events only), and the summary agrees with it.
C33_LogChain ==
    /\ signalLog # <<>> => signalLog[1].portfolioBefore = initialPortfolio
    /\ \A i \in 2..Len(signalLog) :
          /\ signalLog[i].portfolioBefore = signalLog[i - 1].portfolioAfter
          /\ signalLog[i - 1].day <= signalLog[i].day
    /\ \A i \in 1..Len(signalLog) :
          signalLog[i].portfolioAfter
              = applyEvents(signalLog[i].portfolioBefore, signalLog[i].events)
    /\ portfolio = LastLogged
    /\ summary # Null =>
          /\ Get(summary).totalRealizedPL = LastLogged.realizedPL
          /\ Get(summary).totalPremiumCollected = LastLogged.totalPremiumCollected
          /\ Get(summary).totalAssignments = LastLogged.totalAssignments
          /\ Get(summary).totalSkippedCycles = LastLogged.totalSkippedCycles

C33_Witness ==
    /\ pc = "done"
    /\ Len(signalLog) >= 4
    /\ \E i \in 1..(Len(signalLog) - 1) :
          /\ signalLog[i].day = signalLog[i + 1].day
          /\ HasEvent(signalLog[i], "OPTION_EXPIRED")
    /\ portfolio # initialPortfolio

\* ---- of one call of the executor (SpecExec): any signal

\* C34: for any portfolio in which a position is present exactly in the
\* phases holding_eth and short_call and an open option exactly in the
\* phases short_put and short_call, any market and any signal (SELL_PUT,
\* SELL_CALL, SKIP, CLOSE_POSITION, ROLL, HOLD), applying the events of
\* execute to the portfolio gives a portfolio with the same two properties.
C34_ExecutePreservesConsistency ==
    (pc = "returned" /\ ret.fn = "execute" /\ Consistent(args.portfolio))
        => Consistent(ret.after)

\* ---- of a simulation (Spec): skips, continued

\* C35: totalSkippedCycles counts cycles, not days: two log entries whose
\* signal is SKIP are at least cycleLengthDays days apart.
C35_SkipsOneCycleApart ==
    \A i \in 1..Len(signalLog) : \A j \in (i + 1)..Len(signalLog) :
        (signalLog[i].signal.action = "SKIP" /\ signalLog[j].signal.action = "SKIP")
            => signalLog[j].day >= signalLog[i].day + config.cycleLengthDays

\* ---- of a simulation (Spec): the day of an expiry

C37_RollScalesWithContracts ==
    (/\ pc = "returned"
     /\ ret.fn = "execute"
     /\ args.signal.action = "ROLL"
     /\ args.portfolio.openOption # Null)
        => /\ ret.after.realizedPL - args.portfolio.realizedPL
                  = args.config.contracts * (args.signal.newPremium - args.signal.rollCost)
                    - 2 * args.config.feePerTrade * args.config.contracts
           /\ ret.after.totalPremiumCollected - args.portfolio.totalPremiumCollected
                  = args.config.contracts * args.signal.newPremium

\* ---- of a simulation (Spec): assignments and full cycles

\* C38: with the default rules put and call assignments alternate, a put
\* first, so at the end of every day totalAssignments is twice the number of
\* assigned-call expiries so far, plus one when a position is held; a run's
\* assignments are 2 * fullCycles or 2 * fullCycles + 1.
C38_AssignmentsAlternate ==
    LET assigned == AssignedExpiries(LogEvents)
    IN  /\ \A k \in 1..Len(assigned) :
              assigned[k].optionType = (IF k % 2 = 1 THEN "put" ELSE "call")
        /\ portfolio.totalAssignments
              = 2 * countFullCycles(signalLog)
                + (IF portfolio.position # Null THEN 1 ELSE 0)
        /\ pc = "done" =>
              Get(summary).totalAssignments - 2 * countFullCycles(signalLog) \in {0, 1}

C38_Witness ==
    /\ pc = "done"
    /\ countFullCycles(signalLog) = 1
    /\ Get(summary).totalAssignments = 3
    /\ portfolio.position # Null

\* ---- of a simulation (Spec): calls at or above cost

\* C39: with adaptiveCalls.minStrikeAtCost and the default rules every call
\* is sold (or rolled to) a strike at or above the position's entryPrice, so
\* every ETH_SOLD event in the log has pl >= 0.
C39_CallsAtOrAboveCost ==
    (config.adaptiveCalls # Null /\ Get(config.adaptiveCalls).minStrikeAtCost) =>
        /\ \A i \in 1..Len(signalLog) :
              /\ signalLog[i].signal.action = "SELL_CALL" =>
                    signalLog[i].signal.strike
                        >= Get(signalLog[i].portfolioBefore.position).entryPrice
              /\ signalLog[i].signal.action = "ROLL" =>
                    signalLog[i].signal.newStrike
                        >= Get(signalLog[i].portfolioBefore.position).entryPrice
        /\ \A k \in 1..Len(LogEvents) :
              LogEvents[k].type = "ETH_SOLD" => LogEvents[k].pl >= 0

C39_Witness ==
    /\ config.adaptiveCalls # Null
    /\ Get(config.adaptiveCalls).minStrikeAtCost
    /\ \E i \in 1..Len(signalLog) :
          /\ signalLog[i].signal.action = "SELL_CALL"
          /\ signalLog[i].signal.strike > signalLog[i].market.spot + 1
          /\ signalLog[i].signal.strike
                = Get(signalLog[i].portfolioBefore.position).entryPrice
    /\ \E k \in 1..Len(LogEvents) : LogEvents[k].type = "ETH_SOLD"

\* ---- of a simulation (Spec): the phase at the end of a day

ExecutedOn(d, action) ==
    \E i \in 1..Len(signalLog) :
        signalLog[i].day = d /\ signalLog[i].signal.action = action

\* C40: with the default rules the phase at the end of a day is never
\* idle_cash, and it is holding_eth only on a day on which a SKIP was
\* executed; without adaptiveCalls an option is open at the end of every
\* day, the first of them a put sold on day 0.
C40_NeverIdleAtEndOfDay ==
    /\ \A d \in 1..Len(dailyStates) :
          /\ dailyStates[d].phase # "idle_cash"
          /\ dailyStates[d].phase = "holding_eth" => ExecutedOn(dailyStates[d].day, "SKIP")
          /\ config.adaptiveCalls = Null =>
                dailyStates[d].phase \in {"short_put", "short_call"}
    /\ day >= 1 =>
          /\ portfolio.phase # "idle_cash"
          /\ config.adaptiveCalls = Null => portfolio.openOption # Null
          /\ signalLog # <<>>
          /\ signalLog[1].day = 0
          /\ signalLog[1].signal.action = "SELL_PUT"
          /\ dailyStates[1].phase = "short_put"

C40_Witness ==
    /\ pc = "done"
    /\ \E d \in 1..Len(dailyStates) : dailyStates[d].phase = "holding_eth"
    /\ \E i \in 1..Len(signalLog) :
          /\ HasEvent(signalLog[i], "ETH_SOLD")
          /\ dailyStates[signalLog[i].day + 1].phase = "short_put"

====
